---- MODULE Spec2Model ----
(***************************************************************************)
(* Model of the funding-opportunity bot of Granada OS:                     *)
(*   backend/services/bot_manager.py      (FundingBot, BotManager)         *)
(*   backend/services/verification_service.py (OpportunityVerifier)        *)
(*   backend/database/models.py           (unique constraints)             *)
(*   backend/api/routes/search_api.py     (get_bot_status)                 *)
(*                                                                         *)
(* Spec        : the bot manager's life cycle, the crawl and the persist   *)
(*               step, with stop() and status changes interleaved at the   *)
(*               await points.                                             *)
(* SpecPersist : the dedupe+persist step applied twice to arbitrary        *)
(*               batches over arbitrary stores.                            *)
(* SpecVerify  : the verification loop and one verification pass.          *)
(* SpecScore   : the verification loop over one complete row.              *)
(* SpecCrawl   : one cycle's searches from any crawl log, the crawl loop   *)
(*               scheduled fairly.                                         *)
(* SpecCrawled : the verification loop over rows the crawler saved.        *)
(* SpecTwins   : the verification loop over two rows of one title.         *)
(* SpecBacklog : the polling loop over more unverified rows than its       *)
(*               LIMIT, scheduled fairly and never stopped.                *)
(* SpecDeadline, SpecHash, SpecExtract, SpecContent, SpecSimilarity :      *)
(*               _validate_deadline, _generate_content_hash,               *)
(*               _extract_opportunities, _analyze_content and              *)
(*               _calculate_title_similarity applied to drawn arguments.   *)
(***************************************************************************)
EXTENDS Integers, Sequences, FiniteSets, TLC

\* ------------------------------------------------------------------ bounds
\* scheduled cycles of the continuous-search loop that are modelled
MaxCycles == 2
\* failures the environment injects (page load, screenshot, commit)
MaxFaults == 2
\* external changes of the bot's status (pause / resume / maintenance)
MaxFlips == 2
\* longest batch / store drawn for the dedupe+persist step
MaxBatch == 3
\* passes of the verification loop that are modelled
MaxPasses == 2

\* ------------------------------------------------------------ small helpers
Range(s) == {s[i] : i \in 1..Len(s)}

SeqsUpTo(S, n) == UNION {[1..k -> S] : k \in 0..n}


\* --------------------------------------------------------------------- URLs
\* A URL is its network location, its path and the path's extension; a
\* relative href has an empty network location.
Url(d, p, e) == [dom |-> d, path |-> p, ext |-> e]

\* urllib.parse.urljoin on this universe: an absolute href stands, a relative
\* one takes the base's network location.
urljoin(base, href) == IF href.dom = "" THEN [href EXCEPT !.dom = base.dom] ELSE href

\* urlparse(url).netloc
netloc(url) == url.dom

excluded_extensions == {".pdf", ".jpg", ".png", ".zip", ".xml", ".css", ".js"}

is_relevant_link(link, domain) ==
    /\ netloc(link) = domain
    /\ link.ext \notin excluded_extensions

\* ------------------------------------------------------------------ targets
UNJobs == "UN Jobs - South Sudan"
FundsforNGOs == "FundsforNGOs - South Sudan"
COUNTRY == "South Sudan"

\* The rows of search_targets (read-only to the crawler).
SearchTargetRows ==
    { [name |-> UNJobs, url |-> Url("un", "jobs", ""), country |-> COUNTRY,
       type |-> "playwright", priority |-> 9, is_active |-> TRUE],
      [name |-> FundsforNGOs, url |-> Url("ngo", "list", ""), country |-> COUNTRY,
       type |-> "scraping", priority |-> 7, is_active |-> TRUE],
      [name |-> "Grants API", url |-> Url("api", "v1", ""), country |-> COUNTRY,
       type |-> "api", priority |-> 5, is_active |-> TRUE],
      [name |-> "Old Portal", url |-> Url("old", "home", ""), country |-> COUNTRY,
       type |-> "scraping", priority |-> 8, is_active |-> FALSE],
      [name |-> "Kenya Grants", url |-> Url("ke", "home", ""), country |-> "Kenya",
       type |-> "scraping", priority |-> 6, is_active |-> TRUE] }

RECURSIVE OrderByPriorityDesc(_)
OrderByPriorityDesc(S) ==
    IF S = {} THEN <<>>
    ELSE LET t == CHOOSE x \in S : \A y \in S : y.priority <= x.priority
         IN  <<t>> \o OrderByPriorityDesc(S \ {t})

\* BotManager._get_search_targets
get_search_targets(country) ==
    OrderByPriorityDesc({t \in SearchTargetRows : t.country = country /\ t.is_active})

\* --------------------------------------------------------------- page content
JobC(title, href) ==
    [cls |-> "div.job-container", link |-> TRUE, title |-> title, href |-> href, p |-> ""]
ArticleC(title, href, p) ==
    [cls |-> "article.article-list", link |-> TRUE, title |-> title, href |-> href, p |-> p]
NoLinkC(cls) ==
    [cls |-> cls, link |-> FALSE, title |-> "", href |-> Url("", "", ""), p |-> ""]
NoPage == [containers |-> <<>>, anchors |-> {}]

\* What the sites serve.  `variant` selects the content of the NGO listing.
SiteVariants == {"distinct", "same_triple", "same_url"}

PageContent(variant, url) ==
    CASE url = Url("un", "jobs", "") ->
           [containers |-> << JobC("ab", Url("", "j1", "")),
                              NoLinkC("div.job-container") >>,
            anchors |-> { Url("", "p2", ""), Url("", "doc", ".pdf"),
                          Url("ngo", "list", "") }]
      [] url = Url("un", "p2", "") ->
           [containers |-> << JobC("ab", Url("", "j1", "")),
                              JobC("a", Url("un", "j3", "")) >>,
            anchors |-> { Url("", "jobs", "") }]
      [] url = Url("ngo", "list", "") ->
           [containers |->
              CASE variant = "distinct" ->
                     << ArticleC("a", Url("ngo", "g1", ""), "b"),
                        ArticleC("c", Url("ngo", "g2", ""), "") >>
                [] variant = "same_triple" ->
                     << ArticleC("a", Url("ngo", "g1", ""), "b"),
                        ArticleC("a", Url("ngo", "g1", ""), "b") >>
                [] OTHER ->
                     << ArticleC("a", Url("ngo", "g1", ""), "b"),
                        ArticleC("c", Url("ngo", "g1", ""), "b") >>,
            anchors |-> {}]
      [] OTHER -> NoPage

\* every <a href> of the page: the containers' title links and the others
PageHrefs(page) ==
    page.anchors \cup {page.containers[i].href :
                         i \in {j \in 1..Len(page.containers) : page.containers[j].link}}

\* the selector the crawl waits for on a page of this target ("" : a fixed delay)
WaitSelector(target) ==
    CASE target.name = FundsforNGOs -> "article.article-list"
      [] target.name = UNJobs -> "div.job-container"
      [] OTHER -> ""

HasSelector(page, sel) ==
    sel = "" \/ \E i \in 1..Len(page.containers) : page.containers[i].cls = sel

\* ------------------------------------------------------------- content hash
\* SHA-256 is taken as injective on its input: the digest is identified with
\* the hashed string, the concatenation title + source_name + description.
generate_content_hash(opp_data) ==
    opp_data.title \o opp_data.source_name \o opp_data.description

\* ---------------------------------------------------------------- extractor
Candidate(title, description, source_url, target, now) ==
    LET o == [title |-> title, description |-> description, source_url |-> source_url,
              source_name |-> target.name, country |-> target.country,
              scraped_at |-> now]
    IN  [title |-> o.title, description |-> o.description, source_url |-> o.source_url,
         source_name |-> o.source_name, country |-> o.country, scraped_at |-> o.scraped_at,
         content_hash |-> generate_content_hash(o), screenshot_path |-> FALSE]

RECURSIVE ExtractFrom(_, _, _, _, _)
ExtractFrom(cs, i, target, page_url, now) ==
    IF i > Len(cs) THEN <<>>
    ELSE LET c == cs[i]
             rest == ExtractFrom(cs, i + 1, target, page_url, now)
         IN  IF target.name = UNJobs /\ c.cls = "div.job-container" /\ c.link
             THEN <<Candidate(c.title, c.title, urljoin(page_url, c.href), target, now)>>
                  \o rest
             ELSE IF target.name = FundsforNGOs /\ c.cls = "article.article-list" /\ c.link
             THEN <<Candidate(c.title, IF c.p /= "" THEN c.p ELSE c.title, c.href,
                              target, now)>> \o rest
             ELSE rest

\* FundingBot._extract_opportunities
extract_opportunities(page, target, page_url, now) ==
    ExtractFrom(page.containers, 1, target, page_url, now)

\* FundingBot._discover_internal_links
discover_internal_links(page, base_url) ==
    {u \in {urljoin(base_url, h) : h \in PageHrefs(page)} :
        is_relevant_link(u, netloc(base_url))}

\* ------------------------------------------------------------ dedupe, store
\* NULL / None in a numeric or datetime column
Null == -1

\* the DonorOpportunity row built from a candidate (lines 359-372), with the
\* columns it leaves to their defaults: deadline, amount_min, amount_max and
\* last_verified NULL, verification_score 0.0.  deadline_tzinfo tells whether
\* the deadline value carries a time zone.
NewRow(opp_data) ==
    [title |-> opp_data.title, description |-> opp_data.description,
     source_url |-> opp_data.source_url, source_name |-> opp_data.source_name,
     country |-> opp_data.country, content_hash |-> opp_data.content_hash,
     scraped_at |-> opp_data.scraped_at, is_verified |-> FALSE, is_active |-> TRUE,
     screenshot_path |-> opp_data.screenshot_path,
     deadline |-> Null, deadline_tzinfo |-> FALSE,
     amount_min |-> Null, amount_max |-> Null,
     verification_score |-> 0, last_verified |-> Null]

Hashes(rows) == {rows[i].content_hash : i \in 1..Len(rows)}

RECURSIVE DedupeNoRunningSet(_, _, _)
\* the loop of lines 357-374 without line 374: a stored hash is not remembered
DedupeNoRunningSet(opportunities, i, existing_hashes) ==
    IF i > Len(opportunities) THEN <<>>
    ELSE LET opp_data == opportunities[i]
         IN  IF opp_data.content_hash \notin existing_hashes
             THEN <<NewRow(opp_data)>>
                  \o DedupeNoRunningSet(opportunities, i + 1, existing_hashes)
             ELSE DedupeNoRunningSet(opportunities, i + 1, existing_hashes)

RECURSIVE DedupeFrom(_, _, _)
\* the loop of lines 357-374: skip a candidate whose hash is in existing_hashes,
\* else build its row and add its hash to existing_hashes
DedupeFrom(opportunities, i, existing_hashes) ==
    IF i > Len(opportunities) THEN <<>>
    ELSE LET opp_data == opportunities[i]
         IN  IF opp_data.content_hash \notin existing_hashes
             THEN <<NewRow(opp_data)>>
                  \o DedupeFrom(opportunities, i + 1,
                                existing_hashes \cup {opp_data.content_hash})
             ELSE DedupeFrom(opportunities, i + 1, existing_hashes)

\* _save_opportunities without the SELECT of lines 351-355: only the batch's
\* own hashes are remembered
save_opportunities_no_select(rows, opportunities) ==
    DedupeFrom(opportunities, 1, {})

\* BotManager._save_opportunities: the rows handed to session.add_all; the
\* returned saved_count is their number.  `rows` is what the session's SELECT
\* sees of donor_opportunities.
save_opportunities(rows, opportunities) ==
    LET hashes == Hashes(opportunities)
        existing_hashes == {h \in Hashes(rows) : h \in hashes}
    IN  DedupeFrom(opportunities, 1, existing_hashes)

\* The unique constraints of donor_opportunities (content_hash, source_url):
\* whether the INSERTs of `new` after `rows` violate none of them.
UniqueOk(rows, new) ==
    LET all == rows \o new
    IN  \A i, j \in 1..Len(all) :
            i < j /\ j > Len(rows) =>
                /\ all[i].content_hash /= all[j].content_hash
                /\ all[i].source_url /= all[j].source_url

\* =========================================================================
\* The bot manager, the crawl and the persist step
\* =========================================================================
VARIABLES
    variant,              \* what the NGO listing serves (fixed per behaviour)
    pc,                   \* where the start task / the search loop stands
    bot,                  \* bot_manager.bot: "none" (None) or "bot"
    botStatus,            \* FundingBot.status
    running,              \* BotManager.running
    session,              \* FundingBot.session (aiohttp): "none", "open", "closed"
    p_browser,            \* FundingBot.p_browser: "none", "open", "closed"
    opportunities_found,  \* FundingBot.opportunities_found
    last_run,             \* FundingBot.last_run (0: None)
    errors,               \* len(FundingBot.errors)
    store,                \* committed rows of donor_opportunities, in insert order
    crawlLog,             \* committed rows of crawl_logs
    txLog,                \* crawl_logs rows inserted in the open transaction
    txRows,               \* donor_opportunities rows added to the open transaction
    targetsLeft,          \* the targets of the cycle not yet searched
    all_opportunities,    \* _run_bot_cycle's batch
    target,               \* the target being crawled
    urls_to_visit,        \* the crawl's frontier
    visited_urls,         \* the crawl's visited set
    crawlOpps,            \* _crawl_with_playwright's all_opportunities
    cycle,                \* iterations of the loop so far (the clock)
    faults,               \* failures injected so far
    flips,                \* external status changes so far
    stopped,              \* stop() has been called
    launchFailed,         \* history: the browser failed to launch
    outcome,              \* history: how the last cycle ended
    fetched,              \* history: the URLs the crawl page navigated to, this crawl
    logAtCrawlStart,      \* history: the URLs logged for the domain at crawl start
    logAtCycleStart,      \* history: crawl_logs when the cycle started
    lost,                 \* history: hashes of the batches of rolled-back cycles
    cycleClean,           \* history: no failure and no stop() in this cycle so far
    firstRun,             \* history: the store and the counter after a first persist
    vpc,                  \* where VerificationService.start stands
    vRunning,             \* VerificationService.running
    vSession,             \* OpportunityVerifier.session: "none", "open", "closed"
    audit,                \* committed rows of opportunity_verifications, in insert order
    vBatch,               \* the rows selected by the pass, not yet verified (row numbers)
    verification_results, \* the four check results of the opportunity being verified
    passes,               \* passes of the verification loop so far (the clock)
    vFaults,              \* failures injected into the verification loop so far
    fnpc,                 \* a function applied on its own: "idle", "call", "done"
    fnIn,                 \* its arguments
    fnOut                 \* what it returned, or that it raised

botVars == <<bot, botStatus, running, session, p_browser, opportunities_found,
             last_run, errors>>
dbVars == <<store, crawlLog, txLog, txRows>>
cycleVars == <<targetsLeft, all_opportunities>>
crawlVars == <<target, urls_to_visit, visited_urls, crawlOpps>>
histVars == <<launchFailed, outcome, fetched, logAtCrawlStart, logAtCycleStart, lost,
              cycleClean>>
verifyVars == <<vpc, vRunning, vSession, audit, vBatch, verification_results,
               passes, vFaults>>
\* what no step of the bot manager touches
fnVars == <<fnpc, fnIn, fnOut>>
envVars == <<variant, firstRun, verifyVars, fnVars>>
vars == <<envVars, pc, botVars, dbVars, cycleVars, crawlVars, cycle, faults, flips,
          stopped, histVars>>

BotStatus == {"active", "paused", "error", "maintenance"}

NoTarget == [name |-> "", url |-> Url("", "", ""), country |-> "", type |-> "",
             priority |-> 0, is_active |-> FALSE]

InFlight == pc \in {"targets", "target", "crawl", "save", "commit"}

NoResults == [url_check |-> 0, content_analysis |-> 0, deadline_validation |-> 0,
              duplicate_check |-> 0]

\* the verification service before start() and the persist history, unused
VerifierIdle ==
    /\ firstRun = [store |-> <<>>, found |-> 0, committed |-> FALSE, done |-> FALSE]
    /\ vpc = "v_boot"
    /\ vRunning = FALSE
    /\ vSession = "none"
    /\ audit = <<>>
    /\ vBatch = <<>>
    /\ verification_results = NoResults
    /\ passes = 0
    /\ vFaults = 0

\* no function is applied on its own
FnIdle ==
    /\ fnpc = "idle"
    /\ fnIn = <<>>
    /\ fnOut = <<>>

\* the bot manager before start_bot_system, over an empty database
BotIdle ==
    /\ pc = "boot"
    /\ bot = "none"
    /\ botStatus = "active"
    /\ running = FALSE
    /\ session = "none"
    /\ p_browser = "none"
    /\ opportunities_found = 0
    /\ last_run = 0
    /\ errors = 0
    /\ store = <<>>
    /\ crawlLog = {}
    /\ txLog = {}
    /\ txRows = <<>>
    /\ targetsLeft = <<>>
    /\ all_opportunities = <<>>
    /\ target = NoTarget
    /\ urls_to_visit = <<>>
    /\ visited_urls = {}
    /\ crawlOpps = <<>>
    /\ cycle = 0
    /\ faults = 0
    /\ flips = 0
    /\ stopped = FALSE
    /\ launchFailed = FALSE
    /\ outcome = "none"
    /\ fetched = <<>>
    /\ logAtCrawlStart = {}
    /\ logAtCycleStart = {}
    /\ lost = {}
    /\ cycleClean = FALSE

Init ==
    /\ variant \in SiteVariants
    /\ BotIdle
    /\ VerifierIdle
    /\ FnIdle

\* start_bot_system, first half: initialize_bot builds the FundingBot and
\* start_sessions opens the aiohttp session, up to the await of the launch.
InitializeBot ==
    /\ pc = "boot"
    /\ bot' = "bot"
    /\ botStatus' = "active"
    /\ session' = "open"
    /\ p_browser' = "none"
    /\ opportunities_found' = 0
    /\ last_run' = 0
    /\ errors' = 0
    /\ pc' = "launching"
    /\ UNCHANGED <<envVars, running, dbVars, cycleVars, crawlVars, cycle, faults, flips,
                   stopped, histVars>>

\* the launch succeeded: the bot stays and start_bot_system creates the task
LaunchOk ==
    /\ p_browser' = "open"
    /\ pc' = "spawned"
    /\ UNCHANGED <<bot, botStatus, errors>>

\* the launch raised: status ERROR, an error is recorded, initialize_bot drops
\* the bot and start_bot_system creates no task
LaunchFailed ==
    /\ botStatus' = "error"
    /\ errors' = errors + 1
    /\ bot' = "none"
    /\ pc' = "done"
    /\ UNCHANGED p_browser

\* start_bot_system, second half: the browser launches or fails to
StartSessions ==
    /\ pc = "launching"
    /\ \E launched \in BOOLEAN :
        /\ IF launched THEN LaunchOk ELSE LaunchFailed
        /\ launchFailed' = ~launched
    /\ UNCHANGED <<envVars, running, session, opportunities_found, last_run, dbVars,
                   cycleVars, crawlVars, cycle, faults, flips, stopped, outcome, fetched,
                   logAtCrawlStart, logAtCycleStart, lost, cycleClean>>

\* start_continuous_search up to its loop
StartContinuousSearch ==
    /\ pc = "spawned"
    /\ IF bot = "none"
       THEN pc' = "done" /\ UNCHANGED running
       ELSE pc' = "loop" /\ running' = TRUE
    /\ UNCHANGED <<envVars, bot, botStatus, session, p_browser, opportunities_found,
                   last_run, errors, dbVars, cycleVars, crawlVars, cycle, faults, flips,
                   stopped, histVars>>

\* `while self.running` found false: start_continuous_search returns
LoopExit ==
    /\ pc = "loop"
    /\ ~running
    /\ pc' = "exited"
    /\ UNCHANGED <<envVars, botVars, dbVars, cycleVars, crawlVars, cycle, faults, flips,
                   stopped, histVars>>

\* the test of line 314 without its status half
CycleProceedsAnyStatus == bot /= "none"

\* the guard of _run_bot_cycle (line 314)
CycleProceeds == bot /= "none" /\ botStatus = "active"

\* `while self.running` found true and _run_bot_cycle entered: skipped when the
\* bot is missing or not ACTIVE, else last_run is set and a session opened
RunBotCycle ==
    /\ pc = "loop"
    /\ running
    /\ cycle < MaxCycles
    /\ cycle' = cycle + 1
    /\ IF CycleProceeds
       THEN /\ last_run' = cycle'
            /\ pc' = "targets"
            /\ outcome' = "running"
            /\ logAtCycleStart' = crawlLog
            /\ cycleClean' = (p_browser = "open" /\ session = "open")
            /\ all_opportunities' = <<>>
            /\ targetsLeft' = <<>>
       ELSE /\ pc' = "sleep"
            /\ outcome' = "skipped"
            /\ UNCHANGED <<last_run, logAtCycleStart, cycleClean, all_opportunities,
                           targetsLeft>>
    /\ UNCHANGED <<envVars, bot, botStatus, running, session, p_browser,
                   opportunities_found, errors, dbVars, crawlVars, faults, flips, stopped,
                   launchFailed, fetched, logAtCrawlStart, lost>>

\* a cycle exception that is not caught: the task ends
CycleExceptionEndsLoop ==
    /\ txLog' = {}
    /\ txRows' = <<>>
    /\ pc' = "exited"
    /\ outcome' = "rolled_back"
    /\ UNCHANGED <<store, crawlLog>>

\* the except branch of _run_bot_cycle (lines 336-338): the open transaction
\* is rolled back; start_continuous_search then sleeps.  (When the rollback
\* itself raises, get_db_session rolls back and re-raises, and the loop's own
\* except branch sleeps 60 s instead: the transaction is gone either way.)
CycleException ==
    /\ txLog' = {}
    /\ txRows' = <<>>
    /\ pc' = "sleep"
    /\ outcome' = "rolled_back"
    /\ UNCHANGED <<store, crawlLog>>

\* _get_search_targets, and the early return when there is none
GetSearchTargets ==
    /\ pc = "targets"
    /\ \/ /\ LET targets == get_search_targets(COUNTRY)
             IN  IF targets = <<>>
                 THEN /\ pc' = "sleep"
                      /\ outcome' = "no_targets"
                      /\ UNCHANGED targetsLeft
                 ELSE /\ pc' = "target"
                      /\ targetsLeft' = targets
                      /\ UNCHANGED outcome
          /\ UNCHANGED <<dbVars, faults, cycleClean>>
       \/ /\ faults < MaxFaults
          /\ faults' = faults + 1
          /\ cycleClean' = FALSE
          /\ CycleException
          /\ UNCHANGED targetsLeft
    /\ UNCHANGED <<envVars, botVars, all_opportunities, crawlVars, cycle, flips, stopped,
                   launchFailed, fetched, logAtCrawlStart, logAtCycleStart, lost>>

\* search_target has returned `opportunities` for the head of targetsLeft:
\* lines 328-330 of the loop over the targets
FinishTarget(opportunities) ==
    /\ all_opportunities' = all_opportunities \o opportunities
    /\ targetsLeft' = Tail(targetsLeft)
    /\ pc' = IF Tail(targetsLeft) = <<>> THEN "save" ELSE "target"

\* _get_visited_urls reading only the rows the session has pending
get_visited_urls_pending_only(domain) == {e.url : e \in {x \in txLog : x.domain = domain}}

\* rows of crawl_logs the session sees for a domain (_get_visited_urls)
get_visited_urls(domain) == {e.url : e \in {x \in crawlLog \cup txLog : x.domain = domain}}

\* the branch search_target takes for a target (lines 79, 84, 86): the browser
\* crawl, the HTTP client's scrape, or neither
Backend(t) ==
    CASE t.type = "playwright" -> "browser"
      [] t.type = "scraping" -> "http"
      [] OTHER -> "none"

\* search_target on a browser-rendered target: skipped without a browser;
\* new_page raises on a closed browser (the crawl returns []); else the crawl
\* starts with the start URL in the frontier and the logged URLs as visited
SearchPlaywright(t) ==
    /\ Backend(t) = "browser"
    /\ IF p_browser = "open"
       THEN /\ pc' = "crawl"
            /\ target' = t
            /\ urls_to_visit' = <<t.url>>
            /\ visited_urls' = get_visited_urls(netloc(t.url))
            /\ crawlOpps' = <<>>
            /\ fetched' = <<>>
            /\ logAtCrawlStart' = get_visited_urls(netloc(t.url))
            /\ UNCHANGED <<all_opportunities, targetsLeft>>
       ELSE /\ FinishTarget(<<>>)
            /\ UNCHANGED <<crawlVars, fetched, logAtCrawlStart>>
    /\ UNCHANGED <<faults, cycleClean, errors>>

\* search_target on a scraping target (_scrape_website): one GET of the
\* target's URL; a 200 is parsed, anything else gives []
SearchScraping(t) ==
    /\ Backend(t) = "http"
    /\ \/ /\ session = "open"
          /\ FinishTarget(extract_opportunities(PageContent(variant, t.url), t, t.url, cycle))
          /\ UNCHANGED <<faults, cycleClean>>
       \/ /\ session = "open"
          /\ faults < MaxFaults
          /\ faults' = faults + 1
          /\ cycleClean' = FALSE
          /\ FinishTarget(<<>>)
       \/ /\ session /= "open"
          /\ FinishTarget(<<>>)
          /\ UNCHANGED <<faults, cycleClean>>
    /\ UNCHANGED <<crawlVars, fetched, logAtCrawlStart, errors>>

\* search_target on any other type: a warning and []
SearchUnsupported(t) ==
    /\ Backend(t) = "none"
    /\ FinishTarget(<<>>)
    /\ UNCHANGED <<crawlVars, fetched, logAtCrawlStart, faults, cycleClean, errors>>

\* FundingBot.search_target for the next target of the cycle
SearchTarget ==
    /\ pc = "target"
    /\ LET t == Head(targetsLeft)
       IN  SearchPlaywright(t) \/ SearchScraping(t) \/ SearchUnsupported(t)
    /\ UNCHANGED <<envVars, bot, botStatus, running, session, p_browser,
                   opportunities_found, last_run, dbVars, cycle, flips, stopped,
                   launchFailed, outcome, logAtCycleStart, lost>>

\* the test of line 133 without the visited set
SkipUrlIgnoringVisited(current_url, domain) ==
    ~is_relevant_link(current_url, domain)

\* the test of line 133 on a dequeued URL
SkipUrl(current_url, domain) ==
    current_url \in visited_urls \/ ~is_relevant_link(current_url, domain)

\* the skip of line 134 when line 132 reads the head without removing it
CrawlSkipWithoutPop ==
    /\ pc = "crawl"
    /\ urls_to_visit /= <<>>
    /\ SkipUrl(Head(urls_to_visit), netloc(target.url))
    /\ UNCHANGED vars

\* one iteration of the crawl loop that dequeues a URL and drops it
CrawlSkip ==
    /\ pc = "crawl"
    /\ urls_to_visit /= <<>>
    /\ SkipUrl(Head(urls_to_visit), netloc(target.url))
    /\ urls_to_visit' = Tail(urls_to_visit)
    /\ UNCHANGED <<envVars, pc, botVars, dbVars, cycleVars, target, visited_urls, crawlOpps,
                   cycle, faults, flips, stopped, histVars>>

\* one iteration whose navigation or content wait raises: the page is neither
\* marked visited nor logged (the except branch of line 178)
CrawlPageFails ==
    /\ pc = "crawl"
    /\ urls_to_visit /= <<>>
    /\ LET current_url == Head(urls_to_visit)
           page == PageContent(variant, current_url)
       IN  /\ ~SkipUrl(current_url, netloc(target.url))
           /\ \/ /\ p_browser /= "open"
                 /\ UNCHANGED <<faults, fetched, cycleClean>>
              \/ /\ p_browser = "open"
                 /\ ~HasSelector(page, WaitSelector(target))
                 /\ fetched' = Append(fetched, current_url)
                 /\ UNCHANGED <<faults, cycleClean>>
              \/ /\ p_browser = "open"
                 /\ HasSelector(page, WaitSelector(target))
                 /\ faults < MaxFaults
                 /\ faults' = faults + 1
                 /\ cycleClean' = FALSE
                 /\ fetched' = Append(fetched, current_url)
    /\ urls_to_visit' = Tail(urls_to_visit)
    /\ UNCHANGED <<envVars, pc, botVars, dbVars, cycleVars, target, visited_urls, crawlOpps,
                   cycle, flips, stopped, launchFailed, outcome, logAtCrawlStart,
                   logAtCycleStart, lost>>

Perms(S) == {f \in [1..Cardinality(S) -> S] : \A i, j \in DOMAIN f : i /= j => f[i] /= f[j]}

\* the candidates of a page after the screenshot loop (lines 160-170): the
\* first k were enriched and appended, those in `shot` with a screenshot path
Enriched(opps, k, shot) ==
    [i \in 1..k |-> [opps[i] EXCEPT !.screenshot_path = (i \in shot)]]

\* one iteration that loads a page: it is marked visited and logged, its
\* candidates are extracted and enriched, its links join the frontier.  A
\* screenshot may fail (path None); opening or closing a screenshot page may
\* raise after k candidates, which ends the iteration before link discovery.
CrawlPageOk ==
    /\ pc = "crawl"
    /\ urls_to_visit /= <<>>
    /\ p_browser = "open"
    /\ LET current_url == Head(urls_to_visit)
           domain == netloc(target.url)
           page == PageContent(variant, current_url)
           opps == extract_opportunities(page, target, current_url, cycle)
           visited == visited_urls \cup {current_url}
           rest == Tail(urls_to_visit)
           links == discover_internal_links(page, target.url)
           new == {l \in links : l \notin visited /\ l \notin Range(rest)}
       IN  /\ ~SkipUrl(current_url, domain)
           /\ HasSelector(page, WaitSelector(target))
           /\ fetched' = Append(fetched, current_url)
           /\ visited_urls' = visited
           /\ txLog' = txLog \cup {[url |-> current_url, domain |-> domain,
                                    origin_target_name |-> target.name]}
           /\ \E k \in 0..Len(opps) : \E shot \in SUBSET (1..k) :
                LET raised == k < Len(opps)
                    failed == (k - Cardinality(shot)) + (IF raised THEN 1 ELSE 0)
                IN  /\ faults + failed <= MaxFaults
                    /\ faults' = faults + failed
                    /\ cycleClean' = (cycleClean /\ failed = 0)
                    /\ crawlOpps' = crawlOpps \o Enriched(opps, k, shot)
                    /\ IF raised
                       THEN urls_to_visit' = rest
                       ELSE \E order \in Perms(new) : urls_to_visit' = rest \o order
    /\ UNCHANGED <<envVars, pc, botVars, store, crawlLog, txRows, cycleVars, target, cycle,
                   flips, stopped, launchFailed, outcome, logAtCrawlStart, logAtCycleStart,
                   lost>>

\* the frontier is empty: the crawl commits the session (line 183) and
\* returns its candidates; when the commit raises it returns []
CrawlCommit ==
    /\ pc = "crawl"
    /\ urls_to_visit = <<>>
    /\ \/ /\ crawlLog' = crawlLog \cup txLog
          /\ txLog' = {}
          /\ FinishTarget(crawlOpps)
          /\ UNCHANGED <<faults, cycleClean>>
       \/ /\ faults < MaxFaults
          /\ faults' = faults + 1
          /\ cycleClean' = FALSE
          /\ txLog' = {}
          /\ FinishTarget(<<>>)
          /\ UNCHANGED crawlLog
    /\ UNCHANGED <<envVars, botVars, store, txRows, crawlVars, cycle, flips, stopped,
                   launchFailed, outcome, fetched, logAtCrawlStart, logAtCycleStart, lost>>

\* lines 331-334: the batch is deduplicated and its new rows are added to the
\* session; opportunities_found grows by saved_count
SaveOpportunities ==
    /\ pc = "save"
    /\ IF all_opportunities /= <<>>
       THEN LET new_opportunities == save_opportunities(store, all_opportunities)
            IN  /\ txRows' = new_opportunities
                /\ opportunities_found' = opportunities_found + Len(new_opportunities)
       ELSE UNCHANGED <<txRows, opportunities_found>>
    /\ pc' = "commit"
    /\ UNCHANGED <<envVars, bot, botStatus, running, session, p_browser, last_run, errors,
                   store, crawlLog, txLog, cycleVars, crawlVars, cycle, faults, flips,
                   stopped, histVars>>

\* session.commit() of line 335: the pending rows are inserted under the
\* unique constraints; a violation or a lost connection raises
Commit ==
    /\ pc = "commit"
    /\ \/ /\ UniqueOk(store, txRows)
          /\ store' = store \o txRows
          /\ crawlLog' = crawlLog \cup txLog
          /\ txRows' = <<>>
          /\ txLog' = {}
          /\ pc' = "sleep"
          /\ outcome' = "committed"
          /\ UNCHANGED <<faults, cycleClean, lost>>
       \/ /\ ~UniqueOk(store, txRows)
          /\ CycleException
          /\ lost' = lost \cup Hashes(all_opportunities)
          /\ UNCHANGED <<faults, cycleClean>>
       \/ /\ faults < MaxFaults
          /\ faults' = faults + 1
          /\ cycleClean' = FALSE
          /\ CycleException
          /\ lost' = lost \cup Hashes(all_opportunities)
    /\ UNCHANGED <<envVars, botVars, cycleVars, crawlVars, cycle, flips, stopped,
                   launchFailed, fetched, logAtCrawlStart, logAtCycleStart>>

\* asyncio.sleep(run_interval_seconds) is over
Wake ==
    /\ pc = "sleep"
    /\ pc' = "loop"
    /\ UNCHANGED <<envVars, botVars, dbVars, cycleVars, crawlVars, cycle, faults, flips,
                   stopped, histVars>>

\* FundingBot.close_sessions
close_sessions ==
    /\ session' = IF session = "open" THEN "closed" ELSE session
    /\ p_browser' = IF p_browser = "open" THEN "closed" ELSE p_browser

\* BotManager.stop, called once at shutdown, at any await point of the task
Stop ==
    /\ ~stopped
    /\ stopped' = TRUE
    /\ running' = FALSE
    /\ IF bot /= "none" THEN close_sessions ELSE UNCHANGED <<session, p_browser>>
    /\ cycleClean' = FALSE
    /\ UNCHANGED <<envVars, pc, bot, botStatus, opportunities_found, last_run, errors,
                   dbVars, cycleVars, crawlVars, cycle, faults, flips, launchFailed,
                   outcome, fetched, logAtCrawlStart, logAtCycleStart, lost>>

\* the status flag is flipped from outside (pause, resume, maintenance)
SetStatus ==
    /\ bot /= "none"
    /\ flips < MaxFlips
    /\ flips' = flips + 1
    /\ \E s \in BotStatus \ {botStatus} : botStatus' = s
    /\ UNCHANGED <<envVars, pc, bot, running, session, p_browser, opportunities_found,
                   last_run, errors, dbVars, cycleVars, crawlVars, cycle, faults, stopped,
                   histVars>>

\* bot_manager.bot-status of the search API
get_bot_status == IF bot = "none" THEN "inactive" ELSE botStatus

Next ==
    \/ InitializeBot
    \/ StartSessions
    \/ StartContinuousSearch
    \/ LoopExit
    \/ RunBotCycle
    \/ GetSearchTargets
    \/ SearchTarget
    \/ CrawlSkip
    \/ CrawlPageFails
    \/ CrawlPageOk
    \/ CrawlCommit
    \/ SaveOpportunities
    \/ Commit
    \/ Wake
    \/ Stop
    \/ SetStatus

Spec == Init /\ [][Next]_vars

\* =========================================================================
\* The dedupe+persist step, twice on the same batch
\* =========================================================================
PersistUrls == {Url("ngo", "g1", ""), Url("ngo", "g2", "")}

\* candidates as the FundsforNGOs extractor builds them
PersistCandidates ==
    {Candidate(t, d, u, CHOOSE x \in SearchTargetRows : x.name = FundsforNGOs, 1) :
        t \in {"a", "c"}, d \in {"b"}, u \in PersistUrls}

\* stores that satisfy the unique constraints
PersistStores ==
    {s \in SeqsUpTo({NewRow(c) : c \in PersistCandidates}, Cardinality(PersistUrls)) :
        UniqueOk(<<>>, s)}

\* a cycle stands before its persist step with some batch, over some store;
\* no failure is injected
InitPersist ==
    /\ variant = "distinct"
    /\ bot = "bot" /\ botStatus = "active" /\ running = TRUE
    /\ session = "open" /\ p_browser = "open"
    /\ opportunities_found = 0 /\ last_run = 1 /\ errors = 0
    /\ store \in PersistStores
    /\ crawlLog = {} /\ txLog = {} /\ txRows = <<>>
    /\ targetsLeft = <<>>
    /\ all_opportunities \in SeqsUpTo(PersistCandidates, MaxBatch)
    /\ target = NoTarget /\ urls_to_visit = <<>> /\ visited_urls = {} /\ crawlOpps = <<>>
    /\ cycle = 1
    /\ faults = MaxFaults
    /\ flips = 0
    /\ stopped = FALSE
    /\ launchFailed = FALSE
    /\ outcome = "running"
    /\ fetched = <<>> /\ logAtCrawlStart = {} /\ logAtCycleStart = {} /\ lost = {}
    /\ cycleClean = TRUE
    /\ pc = "save"
    /\ VerifierIdle
    /\ FnIdle

\* the same batch is handed to the persist step a second time
PersistAgain ==
    /\ pc = "sleep"
    /\ ~firstRun.done
    /\ firstRun' = [store |-> store, found |-> opportunities_found,
                    committed |-> (outcome = "committed"), done |-> TRUE]
    /\ pc' = "save"
    /\ outcome' = "running"
    /\ UNCHANGED <<variant, verifyVars, fnVars, botVars, dbVars, cycleVars, crawlVars, cycle,
                   faults, flips, stopped, launchFailed, fetched, logAtCrawlStart,
                   logAtCycleStart, lost, cycleClean>>

NextPersist ==
    \/ SaveOpportunities
    \/ Commit
    \/ PersistAgain

SpecPersist == InitPersist /\ [][NextPersist]_vars

\* =========================================================================
\* One cycle's searches, from any crawl log, under a fair scheduler
\* =========================================================================
\* the pages of the UN Jobs site
SiteUrls == {Url("un", p, "") : p \in {"jobs", "p2", "j1", "j3"}}

\* crawl_logs as earlier cycles may have left it
CrawlLogs ==
    {{[url |-> u, domain |-> "un", origin_target_name |-> UNJobs] : u \in U} :
        U \in SUBSET SiteUrls}

InitCrawl ==
    /\ variant \in SiteVariants
    /\ bot = "bot" /\ botStatus = "active" /\ running = TRUE
    /\ session = "open" /\ p_browser = "open"
    /\ opportunities_found = 0 /\ last_run = 1 /\ errors = 0
    /\ store = <<>>
    /\ crawlLog \in CrawlLogs
    /\ txLog = {} /\ txRows = <<>>
    /\ targetsLeft = get_search_targets(COUNTRY)
    /\ all_opportunities = <<>>
    /\ target = NoTarget /\ urls_to_visit = <<>> /\ visited_urls = {} /\ crawlOpps = <<>>
    /\ cycle = 1
    /\ faults = 0
    /\ flips = 0
    /\ stopped = FALSE
    /\ launchFailed = FALSE
    /\ outcome = "running"
    /\ fetched = <<>> /\ logAtCrawlStart = {} /\ logAtCycleStart = crawlLog /\ lost = {}
    /\ cycleClean = TRUE
    /\ pc = "target"
    /\ VerifierIdle
    /\ FnIdle

\* one iteration of the crawl loop, or its end
CrawlStep == CrawlSkip \/ CrawlPageFails \/ CrawlPageOk \/ CrawlCommit

NextCrawl == SearchTarget \/ CrawlStep \/ Stop

\* the crawl is a coroutine of the running event loop and each of its awaits
\* completes or times out (goto 90 s, wait_for_selector 30 s, screenshot
\* 60 s): an iteration that can be taken is taken
SpecCrawl == InitCrawl /\ [][NextCrawl]_vars /\ WF_vars(CrawlStep)

\* =========================================================================
\* The verification service
\* =========================================================================
\* Scores are in hundredths; the overall score, the mean of four checks, is
\* kept as their sum, in four-hundredths.
VERIFIED_THRESHOLD == 280        \* overall_score >= 0.7
SELECT_LIMIT == 50               \* .limit(50)

\* what the GET of _verify_url can meet, with the relevance of a 200's content
UrlResponses ==
    {[kind |-> "200", relevance |-> r] : r \in {0, 90, 100}}
    \cup {[kind |-> k, relevance |-> 0] : k \in {"redirect", "other", "timeout", "error"}}

Min(a, b) == IF a <= b THEN a ELSE b

\* OpportunityVerifier._verify_url
verify_url(opportunity, response) ==
    IF vSession /= "open" THEN 0
    ELSE CASE response.kind = "200" -> Min(100, 70 + (response.relevance * 30) \div 100)
           [] response.kind = "redirect" -> 80
           [] response.kind = "other" -> 20
           [] response.kind = "timeout" -> 10
           [] OTHER -> 0

Truthy(x) == x /= Null /\ x /= 0

\* Times are counted in ticks, TicksPerDay to the day; timedelta.days is the
\* number of whole days.
TicksPerDay == 2

\* datetime.utcnow() carries no time zone; a deadline read from the
\* DateTime(timezone=True) column carries one.  Comparing or subtracting the
\* two raises TypeError.
CompareRaises(opportunity) ==
    opportunity.deadline /= Null /\ opportunity.deadline_tzinfo

\* OpportunityVerifier._analyze_content, when the deadline comparison of
\* line 159 does not raise
analyze_content(opportunity, now) ==
    (IF opportunity.title /= "" /\ Len(opportunity.title) >= 20 THEN 20 ELSE 0)
    + (IF opportunity.description = "" THEN 0
       ELSE IF Len(opportunity.description) >= 100 THEN 30
       ELSE IF Len(opportunity.description) >= 50 THEN 15 ELSE 0)
    + (IF Truthy(opportunity.amount_min) \/ Truthy(opportunity.amount_max)
       THEN 20 + (IF /\ Truthy(opportunity.amount_min) /\ Truthy(opportunity.amount_max)
                     /\ opportunity.amount_min <= opportunity.amount_max
                  THEN 10 ELSE 0)
       ELSE 0)
    + (IF opportunity.deadline /= Null /\ opportunity.deadline > now THEN 20 ELSE 0)

\* _validate_deadline scoring a missing deadline as a valid one
validate_deadline_missing_ok(opportunity, now) ==
    IF opportunity.deadline = Null THEN 100
    ELSE IF opportunity.deadline <= now THEN 0
    ELSE 100

\* OpportunityVerifier._validate_deadline, when the comparison of line 180
\* does not raise
validate_deadline(opportunity, now) ==
    IF opportunity.deadline = Null THEN 0
    ELSE IF opportunity.deadline <= now THEN 0
    ELSE LET days_until_deadline == (opportunity.deadline - now) \div TicksPerDay
         IN  IF days_until_deadline > 730 THEN 30
             ELSE IF days_until_deadline > 365 THEN 70
             ELSE 100

\* OpportunityVerifier._check_duplicates, for titles of one word: two different
\* titles have similarity 0, equal ones from one source are exact matches
check_duplicates(id, rows) ==
    LET opportunity == rows[id]
        exact == {i \in 1..Len(rows) :
                    /\ rows[i].title = opportunity.title
                    /\ rows[i].source_name = opportunity.source_name
                    /\ i /= id}
    IN  IF exact /= {} THEN 0 ELSE 100

CheckTypes == <<"url_check", "content_analysis", "deadline_validation", "duplicate_check">>

\* lines 44-48 of verify_opportunity
overall_score(results) ==
    results.url_check + results.content_analysis + results.deadline_validation
    + results.duplicate_check

\* line 48 with > for >=
status_above_only(overall) ==
    IF overall > VERIFIED_THRESHOLD THEN "verified" ELSE "failed"

\* line 48 of verify_opportunity
status(overall) ==
    IF overall >= VERIFIED_THRESHOLD THEN "verified" ELSE "failed"

\* _save_verification writing the three check types the model's comment names
AuditRowsOfThreeChecks(id, results, now) ==
    [k \in 1..3 |->
        [opportunity_id |-> id, verification_type |-> CheckTypes[k],
         score |-> results[CheckTypes[k]], verified_at |-> now,
         verified_by |-> "verification_service"]]

\* _save_verification: one OpportunityVerification per check
AuditRows(id, results, now) ==
    [k \in 1..Len(CheckTypes) |->
        [opportunity_id |-> id, verification_type |-> CheckTypes[k],
         score |-> results[CheckTypes[k]], verified_at |-> now,
         verified_by |-> "verification_service"]]

\* stores the crawler leaves behind: the rows of one committed cycle
VerifyStores ==
    {rows \in {save_opportunities(<<>>,
                  extract_opportunities(PageContent(v, t.url), t, t.url, 1)) :
                  v \in SiteVariants, t \in SearchTargetRows} :
        rows /= <<>> /\ UniqueOk(<<>>, rows)}

InitVerify ==
    /\ variant = "distinct"
    /\ pc = "boot"
    /\ bot = "none" /\ botStatus = "active" /\ running = FALSE
    /\ session = "none" /\ p_browser = "none"
    /\ opportunities_found = 0 /\ last_run = 0 /\ errors = 0
    /\ store \in VerifyStores
    /\ crawlLog = {} /\ txLog = {} /\ txRows = <<>>
    /\ targetsLeft = <<>>
    /\ all_opportunities = <<>>
    /\ target = NoTarget /\ urls_to_visit = <<>> /\ visited_urls = {} /\ crawlOpps = <<>>
    /\ cycle = 0
    /\ faults = 0
    /\ flips = 0
    /\ stopped = FALSE
    /\ launchFailed = FALSE
    /\ outcome = "none"
    /\ fetched = <<>> /\ logAtCrawlStart = {} /\ logAtCycleStart = {} /\ lost = {}
    /\ cycleClean = FALSE
    /\ VerifierIdle
    /\ FnIdle

botSide == <<variant, firstRun, fnVars, pc, botVars, crawlLog, txLog, txRows, cycleVars, crawlVars,
             cycle, faults, flips, histVars>>

\* VerificationService.start up to its loop
VStart ==
    /\ vpc = "v_boot"
    /\ vSession' = "open"
    /\ vRunning' = TRUE
    /\ vpc' = "v_select"
    /\ UNCHANGED <<botSide, store, stopped, audit, vBatch, verification_results, passes,
                   vFaults>>

\* `while self.running` found false
VExit ==
    /\ vpc = "v_select"
    /\ ~vRunning
    /\ vpc' = "v_exited"
    /\ UNCHANGED <<botSide, store, stopped, vRunning, vSession, audit, vBatch,
                   verification_results, passes, vFaults>>

\* the rows the SELECT of lines 307-314 can return
Unverified(rows) ==
    {i \in 1..Len(rows) : ~rows[i].is_verified /\ rows[i].verification_score = 0}

\* a pass starts: up to SELECT_LIMIT unverified rows are read, in any order;
\* when the query raises, the loop backs off
VSelect ==
    /\ vpc = "v_select"
    /\ vRunning
    /\ passes < MaxPasses
    /\ passes' = passes + 1
    /\ \/ /\ \E L \in SUBSET Unverified(store) :
               /\ Cardinality(L) = Min(SELECT_LIMIT, Cardinality(Unverified(store)))
               /\ \E order \in Perms(L) :
                    /\ vBatch' = order
                    /\ vpc' = IF order = <<>> THEN "v_sleep" ELSE "v_verify"
          /\ UNCHANGED vFaults
       \/ /\ vFaults < MaxFaults
          /\ vFaults' = vFaults + 1
          /\ vpc' = "v_sleep"
          /\ UNCHANGED vBatch
    /\ UNCHANGED <<botSide, store, stopped, vRunning, vSession, audit,
                   verification_results>>

\* the loop over the batch moves to the next opportunity (lines 322-328)
NextOpportunity ==
    /\ vBatch' = Tail(vBatch)
    /\ vpc' = IF Tail(vBatch) = <<>> THEN "v_sleep" ELSE "v_verify"

\* verify_opportunity, lines 36-48: the four checks; a TypeError of the
\* deadline comparisons or a database error in the duplicate check raises and
\* the loop goes on with the next opportunity
VerifyChecks ==
    /\ vpc = "v_verify"
    /\ LET id == Head(vBatch)
           opportunity == store[id]
       IN  \/ /\ ~CompareRaises(opportunity)
              /\ \E response \in UrlResponses :
                    verification_results' =
                        [url_check |-> verify_url(opportunity, response),
                         content_analysis |-> analyze_content(opportunity, passes),
                         deadline_validation |-> validate_deadline(opportunity, passes),
                         duplicate_check |-> check_duplicates(id, store)]
              /\ vpc' = "v_save"
              /\ UNCHANGED <<vBatch, vFaults>>
           \/ /\ CompareRaises(opportunity)
              /\ NextOpportunity
              /\ UNCHANGED <<verification_results, vFaults>>
           \/ /\ vFaults < MaxFaults
              /\ vFaults' = vFaults + 1
              /\ NextOpportunity
              /\ UNCHANGED verification_results
    /\ UNCHANGED <<botSide, store, stopped, vRunning, vSession, audit, passes>>

\* _save_verification: the four audit rows are added and committed in a
\* session of their own; when the commit raises nothing is stored
SaveVerification ==
    /\ vpc = "v_save"
    /\ \/ /\ audit' = audit \o AuditRows(Head(vBatch), verification_results, passes)
          /\ vpc' = "v_update"
          /\ UNCHANGED <<vBatch, vFaults>>
       \/ /\ vFaults < MaxFaults
          /\ vFaults' = vFaults + 1
          /\ NextOpportunity
          /\ UNCHANGED audit
    /\ UNCHANGED <<botSide, store, stopped, vRunning, vSession, verification_results,
                   passes>>

\* _update_opportunity_verification: the row's verification fields are
\* updated and committed in another session; then the loop goes on
UpdateOpportunityVerification ==
    /\ vpc = "v_update"
    /\ \/ /\ store' = [store EXCEPT ![Head(vBatch)] =
                         [@ EXCEPT !.verification_score = overall_score(verification_results),
                                   !.is_verified =
                                       (status(overall_score(verification_results))
                                            = "verified"),
                                   !.last_verified = passes]]
          /\ UNCHANGED vFaults
       \/ /\ vFaults < MaxFaults
          /\ vFaults' = vFaults + 1
          /\ UNCHANGED store
    /\ NextOpportunity
    /\ UNCHANGED <<botSide, stopped, vRunning, vSession, audit, verification_results,
                   passes>>

\* asyncio.sleep(300), or the back-off of 60 s, is over
VWake ==
    /\ vpc = "v_sleep"
    /\ vpc' = "v_select"
    /\ UNCHANGED <<botSide, store, stopped, vRunning, vSession, audit, vBatch,
                   verification_results, passes, vFaults>>

\* VerificationService.stop, called once at shutdown
VStop ==
    /\ ~stopped
    /\ stopped' = TRUE
    /\ vRunning' = FALSE
    /\ vSession' = IF vSession = "none" THEN "none" ELSE "closed"
    /\ UNCHANGED <<botSide, store, vpc, audit, vBatch, verification_results, passes,
                   vFaults>>

NextVerify ==
    \/ VStart
    \/ VExit
    \/ VSelect
    \/ VerifyChecks
    \/ SaveVerification
    \/ UpdateOpportunityVerification
    \/ VWake
    \/ VStop

SpecVerify == InitVerify /\ [][NextVerify]_vars

\* ------------------------------------------- verification of complete rows
RECURSIVE Rep(_, _)
\* a text of n characters
Rep(c, n) == IF n = 0 THEN "" ELSE c \o Rep(c, n - 1)

\* rows as the other writers of donor_opportunities leave them: a title of
\* 20 characters, a description of 50 or 100, amounts and a deadline set or
\* not; a deadline read back from the column carries a time zone
ScoreRows ==
    {[NewRow(Candidate(Rep("t", 20), description, Url("ngo", "g1", ""),
                       CHOOSE t \in SearchTargetRows : t.name = FundsforNGOs, 0))
        EXCEPT !.amount_min = amounts[1], !.amount_max = amounts[2],
               !.deadline = deadline, !.deadline_tzinfo = (deadline /= Null)] :
        description \in {Rep("d", 50), Rep("d", 100)},
        amounts \in {<<Null, Null>>, <<5, 9>>},
        deadline \in {Null, 100}}

InitScore ==
    /\ variant = "distinct"
    /\ pc = "boot" /\ bot = "none" /\ botStatus = "active" /\ running = FALSE
    /\ session = "none" /\ p_browser = "none"
    /\ opportunities_found = 0 /\ last_run = 0 /\ errors = 0
    /\ \E row \in ScoreRows : store = <<row>>
    /\ crawlLog = {} /\ txLog = {} /\ txRows = <<>>
    /\ targetsLeft = <<>>
    /\ all_opportunities = <<>>
    /\ target = NoTarget /\ urls_to_visit = <<>> /\ visited_urls = {} /\ crawlOpps = <<>>
    /\ cycle = 0
    /\ faults = 0
    /\ flips = 0
    /\ stopped = FALSE
    /\ launchFailed = FALSE
    /\ outcome = "none"
    /\ fetched = <<>> /\ logAtCrawlStart = {} /\ logAtCycleStart = {} /\ lost = {}
    /\ cycleClean = FALSE
    /\ VerifierIdle
    /\ FnIdle

SpecScore == InitScore /\ [][NextVerify]_vars

\* ------------------------------------- verification of rows the crawler saved
\* candidates with a title of 20 characters and descriptions of the lengths
\* the content rubric tests, as the FundsforNGOs extractor builds them
LongCandidates ==
    {Candidate(Rep("t", 20), description, url,
               CHOOSE t \in SearchTargetRows : t.name = FundsforNGOs, 1) :
        description \in {"b", Rep("d", 50), Rep("d", 100)},
        url \in {Url("ngo", "g1", ""), Url("ngo", "g2", "")}}

\* stores as _save_opportunities (lines 357-374) leaves them: one row, or two
\* rows of one title, the first with a short and the second with a long
\* description
CrawledStores ==
    {rows \in {save_opportunities(<<>>, batch) : batch \in SeqsUpTo(LongCandidates, 2)} :
        /\ rows /= <<>>
        /\ UniqueOk(<<>>, rows)
        /\ rows[1].source_url = Url("ngo", "g1", "")
        /\ Len(rows) = 2 => rows[1].description = "b" /\ rows[2].description = Rep("d", 100)}

InitCrawled ==
    /\ variant = "distinct"
    /\ pc = "boot" /\ bot = "none" /\ botStatus = "active" /\ running = FALSE
    /\ session = "none" /\ p_browser = "none"
    /\ opportunities_found = 0 /\ last_run = 0 /\ errors = 0
    /\ store \in CrawledStores
    /\ crawlLog = {} /\ txLog = {} /\ txRows = <<>>
    /\ targetsLeft = <<>>
    /\ all_opportunities = <<>>
    /\ target = NoTarget /\ urls_to_visit = <<>> /\ visited_urls = {} /\ crawlOpps = <<>>
    /\ cycle = 0
    /\ faults = 0
    /\ flips = 0
    /\ stopped = FALSE
    /\ launchFailed = FALSE
    /\ outcome = "none"
    /\ fetched = <<>> /\ logAtCrawlStart = {} /\ logAtCycleStart = {} /\ lost = {}
    /\ cycleClean = FALSE
    /\ VerifierIdle
    /\ FnIdle

SpecCrawled == InitCrawled /\ [][NextVerify]_vars

\* ----------------------------------- verification of two rows of one title
\* the store after a cycle in which the NGO listing held two articles of one
\* title, with different texts and links
TwinStore ==
    LET t == CHOOSE x \in SearchTargetRows : x.name = FundsforNGOs
    IN  save_opportunities(<<>>,
            extract_opportunities(
                [containers |-> << ArticleC("a", Url("ngo", "g1", ""), "b"),
                                   ArticleC("a", Url("ngo", "g2", ""), "c") >>,
                 anchors |-> {}],
                t, t.url, 1))

InitTwins ==
    /\ variant = "distinct"
    /\ pc = "boot" /\ bot = "none" /\ botStatus = "active" /\ running = FALSE
    /\ session = "none" /\ p_browser = "none"
    /\ opportunities_found = 0 /\ last_run = 0 /\ errors = 0
    /\ store = TwinStore
    /\ crawlLog = {} /\ txLog = {} /\ txRows = <<>>
    /\ targetsLeft = <<>>
    /\ all_opportunities = <<>>
    /\ target = NoTarget /\ urls_to_visit = <<>> /\ visited_urls = {} /\ crawlOpps = <<>>
    /\ cycle = 0
    /\ faults = 0
    /\ flips = 0
    /\ stopped = FALSE
    /\ launchFailed = FALSE
    /\ outcome = "none"
    /\ fetched = <<>> /\ logAtCrawlStart = {} /\ logAtCycleStart = {} /\ lost = {}
    /\ cycleClean = FALSE
    /\ VerifierIdle
    /\ FnIdle

SpecTwins == InitTwins /\ [][NextVerify]_vars

\* --------------------------- the polling loop over more rows than the LIMIT
\* SELECT_LIMIT rows written with a deadline (read back with a time zone, so
\* each verification of them raises) and one row the crawler saved
BacklogStore ==
    [i \in 1..(SELECT_LIMIT + 1) |->
        LET row == NewRow(Candidate(Rep("t", i), "b", Url("ngo", Rep("p", i), ""),
                                    CHOOSE t \in SearchTargetRows : t.name = FundsforNGOs,
                                    0))
        IN  IF i <= SELECT_LIMIT
            THEN [row EXCEPT !.deadline = 100, !.deadline_tzinfo = TRUE]
            ELSE row]

InitBacklog ==
    /\ variant = "distinct"
    /\ pc = "boot" /\ bot = "none" /\ botStatus = "active" /\ running = FALSE
    /\ session = "none" /\ p_browser = "none"
    /\ opportunities_found = 0 /\ last_run = 0 /\ errors = 0
    /\ store = BacklogStore
    /\ crawlLog = {} /\ txLog = {} /\ txRows = <<>>
    /\ targetsLeft = <<>>
    /\ all_opportunities = <<>>
    /\ target = NoTarget /\ urls_to_visit = <<>> /\ visited_urls = {} /\ crawlOpps = <<>>
    /\ cycle = 0
    /\ faults = 0
    /\ flips = 0
    /\ stopped = FALSE
    /\ launchFailed = FALSE
    /\ outcome = "none"
    /\ fetched = <<>> /\ logAtCrawlStart = {} /\ logAtCycleStart = {} /\ lost = {}
    /\ cycleClean = FALSE
    /\ VerifierIdle
    /\ FnIdle

RECURSIVE Limit(_)
\* the sets of rows a query with .limit(SELECT_LIMIT) and no ORDER BY can
\* return out of the matching rows U
Limit(U) ==
    IF Cardinality(U) <= SELECT_LIMIT THEN {U}
    ELSE UNION {Limit(U \ {x}) : x \in U}

\* the rows of S by ascending id
InIdOrder(S) == SelectSeq([i \in 1..Len(store) |-> i], LAMBDA i : i \in S)

\* a poll of the loop (lines 305-316): any SELECT_LIMIT of the unverified rows,
\* handed over in id order; the clock stops at MaxPasses
VPoll ==
    /\ vpc = "v_select"
    /\ vRunning
    /\ passes' = Min(passes + 1, MaxPasses)
    /\ \/ /\ \E L \in Limit(Unverified(store)) :
               /\ vBatch' = InIdOrder(L)
               /\ vpc' = IF L = {} THEN "v_sleep" ELSE "v_verify"
          /\ UNCHANGED vFaults
       \/ /\ vFaults < MaxFaults
          /\ vFaults' = vFaults + 1
          /\ vpc' = "v_sleep"
          /\ UNCHANGED vBatch
    /\ UNCHANGED <<botSide, store, stopped, vRunning, vSession, audit,
                   verification_results>>

NextBacklog ==
    \/ VStart
    \/ VPoll
    \/ VerifyChecks
    \/ SaveVerification
    \/ UpdateOpportunityVerification
    \/ VWake

\* stop() is not called: the loop is a task of the running event loop, its
\* sleeps end and its awaits complete or raise
SpecBacklog == InitBacklog /\ [][NextBacklog]_vars /\ WF_vars(NextBacklog)

\* =========================================================================
\* Functions applied on their own
\* =========================================================================
\* the rest of the program, idle
RestIdle ==
    /\ variant = "distinct"
    /\ BotIdle
    /\ VerifierIdle

progVars == <<variant, firstRun, verifyVars, pc, botVars, dbVars, cycleVars, crawlVars,
              cycle, faults, flips, stopped, histVars>>

\* ------------------------------------------------------- _validate_deadline
\* readings of datetime.utcnow()
Clock == 2..5

\* distances of a deadline from now, in ticks: past, now, within the year,
\* around 365 and 366 days, around 730 and 731 days
DeadlineOffsets ==
    {-1, 0, 1, 365 * TicksPerDay, 365 * TicksPerDay + 1, 366 * TicksPerDay,
     730 * TicksPerDay, 730 * TicksPerDay + 1, 731 * TicksPerDay}

DeadlineInputs ==
    {[opportunity |-> [deadline |-> Null, deadline_tzinfo |-> FALSE], now |-> now] :
        now \in Clock}
    \cup {[opportunity |-> [deadline |-> now + off, deadline_tzinfo |-> tz], now |-> now] :
            now \in Clock, off \in DeadlineOffsets, tz \in BOOLEAN}

InitDeadline ==
    /\ RestIdle
    /\ fnpc = "call"
    /\ fnIn \in DeadlineInputs
    /\ fnOut = <<>>

\* one call of _validate_deadline: its score, or the TypeError of line 180
ValidateDeadline ==
    /\ fnpc = "call"
    /\ fnOut' = IF CompareRaises(fnIn.opportunity)
                THEN [raised |-> TRUE, score |-> 0]
                ELSE [raised |-> FALSE,
                      score |-> validate_deadline(fnIn.opportunity, fnIn.now)]
    /\ fnpc' = "done"
    /\ UNCHANGED <<progVars, fnIn>>

SpecDeadline == InitDeadline /\ [][ValidateDeadline]_vars

\* --------------------------------------------------- _generate_content_hash
KnownTargets == {t \in SearchTargetRows : t.name \in {UNJobs, FundsforNGOs}}

\* (title, description, target) of a candidate; a text may hold a source name
HashTriples ==
    [title : {"a", "a" \o FundsforNGOs \o "b"},
     description : {"c", "b" \o FundsforNGOs \o "c"},
     target : KnownTargets]

InitHash ==
    /\ RestIdle
    /\ fnpc = "call"
    /\ fnIn \in [first : HashTriples, second : HashTriples]
    /\ fnOut = <<>>

\* two candidates are built (their hashes computed, lines 252 and 270) and
\* handed to the dedupe step as one batch over an empty store
HashTwoCandidates ==
    /\ fnpc = "call"
    /\ LET a == Candidate(fnIn.first.title, fnIn.first.description,
                          Url("ngo", "g1", ""), fnIn.first.target, 0)
           b == Candidate(fnIn.second.title, fnIn.second.description,
                          Url("ngo", "g2", ""), fnIn.second.target, 0)
       IN  fnOut' = [first |-> a.content_hash, second |-> b.content_hash,
                     again |-> generate_content_hash(a),
                     saved |-> Len(save_opportunities(<<>>, <<a, b>>))]
    /\ fnpc' = "done"
    /\ UNCHANGED <<progVars, fnIn>>

SpecHash == InitHash /\ [][HashTwoCandidates]_vars

\* ---------------------------------------------------- _extract_opportunities
MaxContainers == 2

\* container elements a page may hold: with a relative or an absolute title
\* link, with an empty link text, without a title link
ContainerElements ==
    { JobC("a", Url("", "j1", "")), JobC("", Url("un", "j3", "")),
      ArticleC("a", Url("", "g1", ""), "b"), ArticleC("c", Url("ngo", "g2", ""), ""),
      NoLinkC("div.job-container"), NoLinkC("article.article-list") }

ExtractInputs ==
    [containers : SeqsUpTo(ContainerElements, MaxContainers),
     target : SearchTargetRows,
     page_url : {Url("un", "jobs", ""), Url("ngo", "list", "")}]

InitExtract ==
    /\ RestIdle
    /\ fnpc = "call"
    /\ fnIn \in ExtractInputs
    /\ fnOut = <<>>

\* one call of _extract_opportunities on a parsed page
ExtractOpportunities ==
    /\ fnpc = "call"
    /\ fnOut' = extract_opportunities([containers |-> fnIn.containers, anchors |-> {}],
                                      fnIn.target, fnIn.page_url, 0)
    /\ fnpc' = "done"
    /\ UNCHANGED <<progVars, fnIn>>

SpecExtract == InitExtract /\ [][ExtractOpportunities]_vars

\* --------------------------------------------------------- _analyze_content
\* titles and descriptions around the lengths the rubric tests, amounts unset,
\* zero or positive, a deadline unset, past, now or ahead, with or without a
\* time zone
ContentInputs ==
    {[opportunity |-> [title |-> title, description |-> description,
                       amount_min |-> amount_min, amount_max |-> amount_max,
                       deadline |-> d[1], deadline_tzinfo |-> d[2]],
      now |-> 3] :
        title \in {"", Rep("t", 19), Rep("t", 20)},
        description \in {"", Rep("d", 49), Rep("d", 50), Rep("d", 99), Rep("d", 100)},
        amount_min \in {Null, 0, 5, 9},
        amount_max \in {Null, 0, 5},
        d \in {<<Null, FALSE>>} \cup ({2, 3, 4} \X BOOLEAN)}

InitContent ==
    /\ RestIdle
    /\ fnpc = "call"
    /\ fnIn \in ContentInputs
    /\ fnOut = <<>>

\* one call of _analyze_content: its score, or the TypeError of line 159
AnalyzeContent ==
    /\ fnpc = "call"
    /\ fnOut' = IF CompareRaises(fnIn.opportunity)
                THEN [raised |-> TRUE, score |-> 0]
                ELSE [raised |-> FALSE,
                      score |-> analyze_content(fnIn.opportunity, fnIn.now)]
    /\ fnpc' = "done"
    /\ UNCHANGED <<progVars, fnIn>>

SpecContent == InitContent /\ [][AnalyzeContent]_vars

\* ------------------------------------------------ _calculate_title_similarity
\* A title is taken as the list of words title.split() gives; "" is <<>>.
MaxWords == 2

TitleWords == {"x", "y", "X", "the"}

\* str.lower on a word
lower(w) == IF w = "X" THEN "x" ELSE w

common_words == {"the", "and", "for", "in", "on", "of", "to", "a", "an"}

RECURSIVE WordsOf(_)
\* lines 239-245: the lower-cased words of a title that are no common words
WordsOf(title) ==
    IF title = <<>> THEN <<>>
    ELSE IF lower(Head(title)) \in common_words THEN WordsOf(Tail(title))
         ELSE <<lower(Head(title))>> \o WordsOf(Tail(title))

Max(a, b) == IF a >= b THEN a ELSE b

\* OpportunityVerifier._calculate_title_similarity, as the fraction
\* <<numerator, denominator>>
calculate_title_similarity(title1, title2) ==
    IF title1 = <<>> \/ title2 = <<>> THEN <<0, 1>>
    ELSE LET t1_words == WordsOf(title1)
             t2_words == WordsOf(title2)
             matches == Cardinality({i \in 1..Len(t1_words) :
                                        t1_words[i] \in Range(t2_words)})
         IN  IF t1_words = <<>> \/ t2_words = <<>> THEN <<0, 1>>
             ELSE <<matches, Max(Len(t1_words), Len(t2_words))>>

\* line 221: similarity > 0.8
Similar(similarity) == 10 * similarity[1] > 8 * similarity[2]

InitSimilarity ==
    /\ RestIdle
    /\ fnpc = "call"
    /\ fnIn \in [title1 : SeqsUpTo(TitleWords, MaxWords),
                 title2 : SeqsUpTo(TitleWords, MaxWords)]
    /\ fnOut = <<>>

\* the similarity test of _check_duplicates (lines 219-221) when the record
\* with title1 is verified against the one with title2, and the other way
CalculateTitleSimilarity ==
    /\ fnpc = "call"
    /\ fnOut' = [forward |-> calculate_title_similarity(fnIn.title1, fnIn.title2),
                 backward |-> calculate_title_similarity(fnIn.title2, fnIn.title1)]
    /\ fnpc' = "done"
    /\ UNCHANGED <<progVars, fnIn>>

SpecSimilarity == InitSimilarity /\ [][CalculateTitleSimilarity]_vars

\* =========================================================================
\* Claims checked under Spec
\* =========================================================================
\* rows of `rows` with content hash h
CountHash(rows, h) == Cardinality({i \in 1..Len(rows) : rows[i].content_hash = h})

SameTriple(a, b) ==
    /\ a.title = b.title
    /\ a.source_name = b.source_name
    /\ a.description = b.description

C3_NeverInFrontier ==
    pc = "crawl" =>
        logAtCrawlStart \cap (Range(urls_to_visit) \cup Range(fetched)) = {}

\* C3 (amended): a URL logged for the domain when the crawl starts is never
\* fetched by the crawl and never joins the frontier as a discovered link; it
\* is in the frontier only as the start URL that seeds it, before the first
\* dequeue, where it is dropped without a fetch.
C3_LoggedNeverFetched ==
    pc = "crawl" =>
        /\ logAtCrawlStart \cap Range(fetched) = {}
        /\ \A i \in 1..Len(urls_to_visit) :
              urls_to_visit[i] \in logAtCrawlStart =>
                  /\ i = 1
                  /\ urls_to_visit[i] = target.url
                  /\ fetched = <<>>
                  /\ Len(urls_to_visit) = 1

\* a crawl that started with logged URLs has dequeued its seed and dropped it
C3_Witness ==
    /\ pc = "crawl"
    /\ target.url \in logAtCrawlStart
    /\ urls_to_visit = <<>>
    /\ fetched = <<>>

\* C4: after a cycle that failed and was rolled back, none of the cycle's
\* writes remain: crawl_logs is what it was when the cycle started (the model
\* writes donor_opportunities only in the final commit).
C4_CycleAtomic ==
    (pc = "sleep" /\ outcome = "rolled_back") => crawlLog = logAtCycleStart

\* C5: the candidates of a cycle whose persist step was rolled back are
\* persisted by a later cycle: when a later cycle in which nothing failed has
\* committed, every candidate of the rolled-back batch is in the store.
C5_RecoveredNextCycle ==
    (pc = "sleep" /\ outcome = "committed" /\ cycleClean) => lost \subseteq Hashes(store)

\* C7: a stop() taken while a cycle is in flight leaves the HTTP session and
\* the browser as they are.
C7_StopWaitsForCycle ==
    [][(InFlight /\ ~stopped /\ stopped') =>
            (session' = session /\ p_browser' = p_browser)]_vars

\* C8: after a failed browser launch the status query reports the ERROR
\* status (and no cycle is ever run).
C8_ErrorSurfaced ==
    launchFailed => (get_bot_status = "error" /\ cycle = 0 /\ ~InFlight)

\* C9: a cycle run entered while the status is not ACTIVE does nothing: it goes
\* straight to the sleep with the store, the crawl log, the open transaction,
\* last_run, opportunities_found, the batch and the fetches untouched; entered
\* while the status is ACTIVE it proceeds to the target query and sets last_run.
C9_SkipUnlessActive ==
    [][(pc = "loop" /\ pc' /= "loop" /\ running) =>
          IF botStatus /= "active"
          THEN /\ pc' = "sleep"
               /\ UNCHANGED <<store, crawlLog, txLog, txRows, last_run,
                              opportunities_found, all_opportunities, targetsLeft,
                              fetched, urls_to_visit, errors>>
          ELSE /\ pc' = "targets"
               /\ last_run' = cycle'
               /\ last_run' > last_run]_vars

\* a cycle was skipped under a non-ACTIVE status, the status went back to
\* ACTIVE and the next cycle is under way
C9_Witness ==
    /\ cycle = 2
    /\ last_run = 2
    /\ flips = 2
    /\ botStatus = "active"
    /\ pc = "targets"

\* C10: a cycle that raises is rolled back, leaves the status and the running
\* flag alone and puts the loop to sleep; from the sleep the loop goes back to
\* its test; the test enters a cycle when running is true; the loop exits
\* only when running is false; no step of the task changes the status.
C10_LoopSurvivesException ==
    [][/\ (outcome' = "rolled_back" /\ InFlight /\ pc' /= pc) =>
             /\ txRows' = <<>> /\ txLog' = {}
             /\ store' = store
             /\ botStatus' = botStatus
             /\ running' = running
             /\ pc' = "sleep"
       /\ (pc = "sleep" /\ pc' /= pc) => pc' = "loop"
       /\ (pc = "loop" /\ pc' /= pc /\ running) => pc' \in {"targets", "sleep"}
       /\ (pc' = "exited" /\ pc /= "exited") => ~running
       /\ (pc \notin {"boot", "launching"} /\ flips' = flips) => botStatus' = botStatus
      ]_vars

\* a cycle was rolled back with the bot ACTIVE and the next cycle is under way
C10_Witness ==
    /\ lost /= {}
    /\ botStatus = "active"
    /\ flips = 0
    /\ cycle = 2
    /\ InFlight

\* C14: a fetch failure is captured in the bot's error list: when a scrape
\* fails (non-200 response or request error), and when a crawl returns after
\* a page of it failed to load, search_target returns normally and the error
\* list has grown.
C14_FetchFailureRecorded ==
    [][/\ (/\ pc = "target"
           /\ Head(targetsLeft).type = "scraping"
           /\ faults' > faults) =>
             (errors' > errors /\ pc' \in {"target", "save"})
       /\ (/\ pc = "crawl"
           /\ pc' /= "crawl"
           /\ \E u \in Range(fetched) : u \notin visited_urls) =>
             (errors' > 0 /\ pc' \in {"target", "save"})
      ]_vars

\* C16: whatever fails while the screenshots of a loaded page are taken, all
\* candidates of the page join the crawl's result, each as extracted but for
\* its screenshot_path.
C16_ScreenshotNeverDrops ==
    [][(pc = "crawl" /\ visited_urls' /= visited_urls) =>
          LET current_url == Head(urls_to_visit)
              opps == extract_opportunities(PageContent(variant, current_url), target,
                                            current_url, cycle)
          IN  /\ Len(crawlOpps') = Len(crawlOpps) + Len(opps)
              /\ \A i \in 1..Len(opps) :
                    [crawlOpps'[Len(crawlOpps) + i] EXCEPT !.screenshot_path = FALSE]
                        = opps[i]
      ]_vars

\* C17: during one crawl every URL is fetched at most once, also one whose
\* load failed, and a URL whose load failed is not in the frontier again.
C17_NoRetryInCrawl ==
    pc = "crawl" =>
        /\ \A i, j \in 1..Len(fetched) : fetched[i] = fetched[j] => i = j
        /\ Range(fetched) \cap Range(urls_to_visit) = {}

\* C19: every target a cycle searches is fetched by the backend of its type:
\* a scraping or api target by the HTTP client, a playwright target by the
\* browser.
C19_EveryTypeServed ==
    pc = "target" =>
        LET t == Head(targetsLeft)
        IN  /\ t.type \in {"scraping", "api"} => Backend(t) = "http"
            /\ t.type = "playwright" => Backend(t) = "browser"

\* C26: once stop() has returned the running flag stays false and no cycle
\* starts, wherever the start task stood when stop() was called.
C26_StopIsFinal ==
    [][stopped => (~running' /\ cycle' = cycle)]_vars

\* C28: when a crawl returns, every candidate of every page it marked visited
\* and whose log row it committed is in the list it returns.
C28_LoggedPagesKeepCandidates ==
    [][(pc = "crawl" /\ pc' /= "crawl") =>
          \A u \in visited_urls \ logAtCrawlStart :
              (\E e \in crawlLog' : e.url = u) =>
                  LET opps == extract_opportunities(PageContent(variant, u), target, u,
                                                    cycle)
                  IN  \A i \in 1..Len(opps) :
                          \E k \in 1..Len(all_opportunities') :
                              /\ all_opportunities'[k].content_hash = opps[i].content_hash
                              /\ all_opportunities'[k].source_url = opps[i].source_url
      ]_vars

\* C29: a crawl of a target whose start URL is in crawl_logs fetches no page
\* and collects no candidate; its frontier holds at most the start URL, which
\* is dropped.
C29_LoggedStartEndsCrawl ==
    (pc = "crawl" /\ \E e \in crawlLog : e.url = target.url /\ e.domain = netloc(target.url))
        => /\ fetched = <<>>
           /\ crawlOpps = <<>>
           /\ urls_to_visit \in {<<>>, <<target.url>>}

\* the crawl of a later cycle has dropped its start URL, logged by the first
\* cycle's crawl, and stands before its return without a candidate
C29_Witness ==
    /\ pc = "crawl"
    /\ cycle = 2
    /\ \E e \in crawlLog : e.url = target.url /\ e.origin_target_name = target.name
    /\ urls_to_visit = <<>>
    /\ crawlOpps = <<>>
    /\ store /= <<>>

C18_CrawlTerminates ==
    (pc = "crawl") ~> (pc /= "crawl" /\ urls_to_visit = <<>>)

\* a crawl has returned in which a page failed to load on each of two attempts
C18_Witness ==
    /\ pc /= "crawl"
    /\ urls_to_visit = <<>>
    /\ \E i, j \in 1..Len(fetched) :
          /\ i < j
          /\ fetched[i] = fetched[j]
          /\ fetched[i] \notin visited_urls

AuditRowsOf(id) == {k \in 1..Len(audit) : audit[k].opportunity_id = id}

C6_VerifierAtomic ==
    \A id \in 1..Len(store) :
        (AuditRowsOf(id) /= {} /\ ~(vpc = "v_update" /\ Head(vBatch) = id))
            => store[id].last_verified /= Null

\* =========================================================================
\* Claims checked under SpecScore
\* =========================================================================
\* the sum of the scores of the last four audit rows
LastPassSum ==
    LET n == Len(audit)
    IN  audit[n - 3].score + audit[n - 2].score + audit[n - 1].score + audit[n].score

\* C11: when a verification pass of an opportunity completes, is_verified is
\* true exactly when the mean of the four check scores is >= 0.7, and the
\* stored verification_score is that mean (scores in hundredths, the mean kept
\* as the sum of the four, so 0.7 is 4 * 70).
C11_ScoreBoundary ==
    [][(vpc = "v_update" /\ vpc' /= vpc /\ vFaults' = vFaults) =>
          LET id == Head(vBatch)
          IN  /\ store'[id].verification_score = LastPassSum
              /\ store'[id].is_verified = (LastPassSum >= 4 * 70)
              /\ store'[id].last_verified = passes]_vars

\* a pass whose mean is exactly 0.7 has completed and verified the opportunity
C11_Witness ==
    /\ Len(store) = 1
    /\ Len(audit) >= 4
    /\ store[1].last_verified /= Null
    /\ store[1].verification_score = 4 * 70
    /\ store[1].is_verified

C24_VerifiedOnce ==
    [][(vpc = "v_select" /\ vpc' = "v_verify") =>
          \A id \in Range(vBatch') :
              ~(store[id].last_verified /= Null /\ Cardinality(AuditRowsOf(id)) = 4)
      ]_vars

\* =========================================================================
\* Claims checked under SpecBacklog
\* =========================================================================
\* C25: while the loop keeps running, every unverified row whose verification
\* does not raise eventually has a completed pass, also with more than
\* SELECT_LIMIT unverified rows of which some raise on every attempt.
C25_NoStarvation ==
    <>(\A id \in 1..Len(store) :
          ~CompareRaises(store[id]) => store[id].last_verified /= Null)

\* =========================================================================
\* Claims checked under SpecDeadline
\* =========================================================================
\* C12: _validate_deadline scores a missing deadline 0.0, a deadline at or
\* before now 0.0, a deadline more than 730 days out 0.3, one more than 365
\* and at most 730 days out 0.7, any other future deadline 1.0.
C12_DeadlineScore ==
    fnpc = "done" =>
        LET deadline == fnIn.opportunity.deadline
            out == deadline - fnIn.now
        IN  /\ ~fnOut.raised
            /\ fnOut.score =
                 IF deadline = Null THEN 0
                 ELSE IF out <= 0 THEN 0
                 ELSE IF out > 730 * TicksPerDay THEN 30
                 ELSE IF out > 365 * TicksPerDay THEN 70
                 ELSE 100

\* =========================================================================
\* Claims checked under SpecHash
\* =========================================================================
TripleOf(x) == <<x.title, x.target.name, x.description>>

\* C15: the hash is a function of (title, source_name, description): computed
\* again it is the same, equal triples give equal hashes, different triples
\* give different hashes, and of two candidates with different triples none
\* is dropped by the dedupe step.
C15_HashInjective ==
    fnpc = "done" =>
        /\ fnOut.again = fnOut.first
        /\ TripleOf(fnIn.first) = TripleOf(fnIn.second) => fnOut.first = fnOut.second
        /\ TripleOf(fnIn.first) /= TripleOf(fnIn.second) =>
              (fnOut.first /= fnOut.second /\ fnOut.saved = 2)

\* =========================================================================
\* Claims checked under SpecExtract
\* =========================================================================
\* the containers of the page the target's selector matches that have a title
\* link, in document order
RECURSIVE LinkedContainers(_, _)
LinkedContainers(cs, sel) ==
    IF cs = <<>> THEN <<>>
    ELSE IF Head(cs).cls = sel /\ Head(cs).link
         THEN <<Head(cs)>> \o LinkedContainers(Tail(cs), sel)
         ELSE LinkedContainers(Tail(cs), sel)

\* C20: for a known target the extractor returns one candidate per container
\* with a title link, each with a non-empty content_hash, the target's country
\* and name, and the title link resolved against the page URL as source_url
\* (never a relative href); for an unknown target name it returns nothing.
C20_ExtractorContract ==
    fnpc = "done" =>
        IF fnIn.target.name \in {UNJobs, FundsforNGOs}
        THEN LET linked == LinkedContainers(fnIn.containers, WaitSelector(fnIn.target))
             IN  /\ Len(fnOut) = Len(linked)
                 /\ \A k \in 1..Len(fnOut) :
                       /\ fnOut[k].content_hash /= ""
                       /\ fnOut[k].country = fnIn.target.country
                       /\ fnOut[k].source_name = fnIn.target.name
                       /\ fnOut[k].source_url = urljoin(fnIn.page_url, linked[k].href)
                       /\ fnOut[k].source_url.dom /= ""
        ELSE fnOut = <<>>

\* =========================================================================
\* Claims checked under SpecContent
\* =========================================================================
\* C21: _analyze_content returns the sum of 0.2 for a title of at least 20
\* characters, 0.3 for a description of at least 100 characters or 0.15 for
\* at least 50, 0.2 when an amount is present, 0.1 when both amounts are set
\* and amount_min <= amount_max (amount_min = 0 included), and 0.2 for a
\* deadline strictly in the future; the score lies between 0 and 1.0.
C21_ContentRubric ==
    fnpc = "done" =>
        LET o == fnIn.opportunity
            rubric ==
                (IF Len(o.title) >= 20 THEN 20 ELSE 0)
                + (IF Len(o.description) >= 100 THEN 30
                   ELSE IF Len(o.description) >= 50 THEN 15 ELSE 0)
                + (IF o.amount_min /= Null \/ o.amount_max /= Null THEN 20 ELSE 0)
                + (IF /\ o.amount_min /= Null /\ o.amount_max /= Null
                      /\ o.amount_min <= o.amount_max
                   THEN 10 ELSE 0)
                + (IF o.deadline /= Null /\ o.deadline > fnIn.now THEN 20 ELSE 0)
        IN  /\ ~fnOut.raised
            /\ fnOut.score = rubric
            /\ fnOut.score \in 0..100

\* =========================================================================
\* Claims checked under SpecSimilarity
\* =========================================================================
\* C22: the title similarity lies in [0, 1] and is symmetric, so the
\* near-duplicate verdict (similarity > 0.8) is the same whichever of two
\* records is the one being verified.
C22_SimilaritySymmetric ==
    fnpc = "done" =>
        /\ \A f \in {fnOut.forward, fnOut.backward} : 0 <= f[1] /\ f[1] <= f[2]
        /\ fnOut.forward[1] * fnOut.backward[2] = fnOut.backward[1] * fnOut.forward[2]
        /\ Similar(fnOut.forward) = Similar(fnOut.backward)

====
